---------------------------- MODULE Spec2Model ----------------------------
(***************************************************************************)
(* syntesuite: the ingestion pipeline (dbmaker::db_from_files) that turns  *)
(* family files and annotation files into the persisted `genomes` table,   *)
(* and the landscape query engine (genebook::GeneBook) that reads it back  *)
(* under its three strategies.                                             *)
(*                                                                         *)
(* Strings are sequences of one-character strings, so that formatting,     *)
(* joining, splitting and parsing are computed character by character.     *)
(***************************************************************************)
EXTENDS Integers, Sequences, FiniteSets, TLC

(***************************************************************************)
(* Bounds of the model.                                                    *)
(***************************************************************************)
MaxFamilies == 3
MaxFiles == 2
MaxRecords == 3
MaxLines == 2
MaxWindow == 2
MaxStart == 2

Ids == {"g1", "g2", "g3"}
AbsentId == "gx"
SpeciesNames == {"sA", "sB"}
Chrs == {"c1", "c2"}
Strands == {"Direct", "Reverse", "Unknown"}

Min(a, b) == IF a < b THEN a ELSE b
Max(a, b) == IF a > b THEN a ELSE b

(***************************************************************************)
(* Strand conversions (lib.rs).                                            *)
(***************************************************************************)
\* impl From<Strand> for char, used by Display
StrandChar(s) ==
    CASE s = "Direct" -> "+"
      [] s = "Reverse" -> "-"
      [] s = "Unknown" -> "."

\* impl From<Strand> for String
StrandString(s) ==
    CASE s = "Direct" -> <<"+">>
      [] s = "Reverse" -> <<"-">>
      [] s = "Unknown" -> <<"-">>

\* impl TryFrom<char> for Strand; ok = FALSE is Err(InvalidStrand)
StrandFromChar(c) ==
    CASE c = "+" -> [ok |-> TRUE, v |-> "Direct"]
      [] c = "-" -> [ok |-> TRUE, v |-> "Reverse"]
      [] c = "." -> [ok |-> TRUE, v |-> "Unknown"]
      [] OTHER -> [ok |-> FALSE, v |-> "Unknown"]

\* impl TryFrom<&str> for Strand; ok = FALSE is Err(InvalidStrand)
StrandFromStr(s) ==
    CASE s = <<"+">> \/ s = <<"1">> \/ s = <<"+", "1">> -> [ok |-> TRUE, v |-> "Direct"]
      [] s = <<"-">> \/ s = <<"-", "1">> -> [ok |-> TRUE, v |-> "Reverse"]
      [] s = <<".">> -> [ok |-> TRUE, v |-> "Unknown"]
      [] OTHER -> [ok |-> FALSE, v |-> "Unknown"]

\* impl Default for Strand
StrandDefault == "Unknown"

(***************************************************************************)
(* Decimal formatting and parsing of usize.                                *)
(***************************************************************************)
Digits == <<"0", "1", "2", "3", "4", "5", "6", "7", "8", "9">>

IsDigit(c) == \E d \in 1..10 : Digits[d] = c

DigitValue(c) == (CHOOSE d \in 1..10 : Digits[d] = c) - 1

\* Display of a usize: its decimal digits, most significant first
RECURSIVE FormatUsize(_)
FormatUsize(n) ==
    IF n < 10 THEN <<Digits[n + 1]>>
    ELSE FormatUsize(n \div 10) \o <<Digits[(n % 10) + 1]>>

RECURSIVE DigitsValue(_)
DigitsValue(s) ==
    IF s = <<>> THEN 0
    ELSE 10 * DigitsValue(SubSeq(s, 1, Len(s) - 1)) + DigitValue(s[Len(s)])

\* str::parse::<usize>: an optional leading '+', then one digit or more;
\* ok = FALSE is Err(ParseIntError)
ParseUsize(s) ==
    LET body == IF s # <<>> /\ s[1] = "+" THEN Tail(s) ELSE s
    IN  IF body # <<>> /\ \A i \in 1..Len(body) : IsDigit(body[i])
        THEN [ok |-> TRUE, v |-> DigitsValue(body)]
        ELSE [ok |-> FALSE, v |-> 0]

(***************************************************************************)
(* String helpers: join and split.                                         *)
(***************************************************************************)
\* [String].join(sep)
RECURSIVE Join(_, _)
Join(parts, sep) ==
    IF parts = <<>> THEN <<>>
    ELSE IF Len(parts) = 1 THEN parts[1]
    ELSE parts[1] \o <<sep>> \o Join(Tail(parts), sep)

\* str::split(sep): the pieces between the separators, empty pieces kept
RECURSIVE Split(_, _)
Split(s, sep) ==
    IF \A i \in 1..Len(s) : s[i] # sep THEN <<s>>
    ELSE LET p == CHOOSE i \in 1..Len(s) :
                    s[i] = sep /\ \A k \in 1..(i - 1) : s[k] # sep
         IN  <<SubSeq(s, 1, p - 1)>> \o Split(SubSeq(s, p + 1, Len(s)), sep)

\* Vec::reverse
Reverse(s) == [i \in 1..Len(s) |-> s[Len(s) + 1 - i]]

\* Vec::truncate
Truncate(s, n) == SubSeq(s, 1, Min(n, Len(s)))


(***************************************************************************)
(* Tail strings: the build-time serialization (dbmaker) and the query-time *)
(* deserialization (genebook).                                             *)
(***************************************************************************)
\* format!("{}{}", a.dir, a.ancestral_id)
FormatTail(a) == <<StrandChar(a.dir)>> \o FormatUsize(a.ancestral_id)

\* parse_tailgene; ok = FALSE is the panic of unwrap() on a failed parse
parse_tailgene(g) ==
    LET first == IF g = <<>> THEN [ok |-> FALSE, v |-> StrandDefault]
                 ELSE StrandFromChar(g[1])
        strand == IF first.ok THEN first.v ELSE StrandDefault
        stripped == IF g # <<>> /\ g[1] \in {"+", "-", "."} THEN Tail(g) ELSE g
        family_id == ParseUsize(stripped)
    IN  [ok |-> family_id.ok,
         v |-> [family |-> family_id.v, strand |-> strand]]

\* GeneBook::parse_landscape; ok = FALSE when parse_tailgene panics on a piece
parse_landscape(landscape) ==
    IF landscape = <<>> THEN [ok |-> TRUE, v |-> <<>>]
    ELSE LET pieces == Split(landscape, ".")
             parsed == [i \in 1..Len(pieces) |-> parse_tailgene(pieces[i])]
         IN  [ok |-> \A i \in 1..Len(pieces) : parsed[i].ok,
              v |-> [i \in 1..Len(pieces) |-> parsed[i].v]]

\* reverse(); truncate(window); reverse()
\* a left truncation that keeps the pairs farthest from the gene
TruncateLeft_KeepFirst(landscape, window) == Truncate(landscape, window)

TruncateLeft(landscape, window) == Reverse(Truncate(Reverse(landscape), window))

\* truncate(window)
\* a right truncation that keeps the pairs farthest from the gene
TruncateRight_KeepLast(landscape, window) ==
    Reverse(Truncate(Reverse(landscape), window))

TruncateRight(landscape, window) == Truncate(landscape, window)

(***************************************************************************)
(* Family Index Builder (dbmaker::parse_family).                           *)
(* A family file is the set of its whitespace-separated tokens; the index  *)
(* is a function whose domain is the set of keys of the HashMap.           *)
(***************************************************************************)
EmptyIndex == [x \in {} |-> 0]

FirstAncestralId == 1

\* inserts that count the family ids from zero
FamilyInsert_FromZero(index, tokens, id) ==
    [x \in (DOMAIN index) \cup tokens |-> IF x \in tokens THEN id - 1 ELSE index[x]]

\* inserts that keep the family id a token already has
FamilyInsert_KeepFirst(index, tokens, id) ==
    [x \in (DOMAIN index) \cup tokens |-> IF x \in DOMAIN index THEN index[x] ELSE id]

\* the inserts of one family file: every token is mapped to the current id
FamilyInsert(index, tokens, id) ==
    [x \in (DOMAIN index) \cup tokens |-> IF x \in tokens THEN id ELSE index[x]]

\* the family loop of db_from_files over a list of files:
\* [index, next] after the last file
RECURSIVE BuildIndex(_)
BuildIndex(files) ==
    IF files = <<>> THEN [index |-> EmptyIndex, next |-> FirstAncestralId]
    ELSE LET before == BuildIndex(SubSeq(files, 1, Len(files) - 1))
         IN  [index |-> FamilyInsert(before.index, files[Len(files)], before.next),
              next |-> before.next + 1]

(***************************************************************************)
(* Genome Annotation Ingester (dbmaker::parse_genome).                     *)
(* A file is [species, records]; a record is [id, chr, start, stop, dir]   *)
(* as the decoders hand it over.  genomes[sp][chr] = <<>> stands for a key *)
(* that is absent from the HashMap (entries are created only by a push).   *)
(***************************************************************************)
EmptyGenomes == [sp \in SpeciesNames |-> [c \in Chrs |-> <<>>]]

\* a sort that puts an annotation before those of the same start
RECURSIVE SortByStart_Unstable(_)
SortByStart_Unstable(ids) ==
    IF ids = <<>> THEN <<>>
    ELSE LET rest == SortByStart_Unstable(SubSeq(ids, 1, Len(ids) - 1))
             a == ids[Len(ids)]
             n == Cardinality({i \in 1..Len(rest) : rest[i].start < a.start})
         IN  SubSeq(rest, 1, n) \o <<a>> \o SubSeq(rest, n + 1, Len(rest))

\* Vec::sort_by_key(|a| a.start): stable
RECURSIVE SortByStart(_)
SortByStart(ids) ==
    IF ids = <<>> THEN <<>>
    ELSE LET rest == SortByStart(SubSeq(ids, 1, Len(ids) - 1))
             a == ids[Len(ids)]
             n == Cardinality({i \in 1..Len(rest) : rest[i].start <= a.start})
         IN  SubSeq(rest, 1, n) \o <<a>> \o SubSeq(rest, n + 1, Len(rest))

\* a record loop that keeps the records of no family too, as family 0
RECURSIVE ParseRecords_KeepAll(_, _, _, _, _)
ParseRecords_KeepAll(records, n, species, genomes0, index) ==
    IF n = 0 THEN [seen |-> {}, genomes |-> genomes0]
    ELSE LET before == ParseRecords_KeepAll(records, n - 1, species, genomes0, index)
             r == records[n]
         IN  IF r.id \notin before.seen
             THEN [seen |-> before.seen \cup {r.id},
                   genomes |-> [before.genomes EXCEPT ![species][r.chr] =
                       Append(@, [id |-> r.id, dir |-> r.dir, start |-> r.start,
                                  stop |-> r.stop,
                                  ancestral_id |-> IF r.id \in DOMAIN index
                                                   THEN index[r.id] ELSE 0])]]
             ELSE before

\* the record loop: [seen, genomes] after records[1..n]
RECURSIVE ParseRecords(_, _, _, _, _)
ParseRecords(records, n, species, genomes0, index) ==
    IF n = 0 THEN [seen |-> {}, genomes |-> genomes0]
    ELSE LET before == ParseRecords(records, n - 1, species, genomes0, index)
             r == records[n]
         IN  IF r.id \in DOMAIN index /\ r.id \notin before.seen
             THEN [seen |-> before.seen \cup {r.id},
                   genomes |-> [before.genomes EXCEPT ![species][r.chr] =
                       Append(@, [id |-> r.id, dir |-> r.dir, start |-> r.start,
                                  stop |-> r.stop, ancestral_id |-> index[r.id]])]]
             ELSE before

\* parse_genome: the record loop, then the sort of every chromosome of the species
parse_genome(file, genomes0, index) ==
    LET after == ParseRecords(file.records, Len(file.records), file.species,
                              genomes0, index).genomes
    IN  [after EXCEPT ![file.species] =
            [c \in Chrs |-> SortByStart(after[file.species][c])]]

(***************************************************************************)
(* The checks of parse_genome and parse_file before a record is kept.      *)
(* A raw file is [species, ext, readable, raw]: the species its name       *)
(* yields (NoSpecies when the species pattern does not match it), its      *)
(* extension, whether it opens, and its lines.  A raw line is              *)
(* [decode, class, raw_id, chr, start, stop, dir]: decode is "ok",         *)
(* "error" (the decoder yields Err) or "panic" (the decoder unwraps a      *)
(* field it cannot parse).  The id pattern is gene:(?P<id>.+), a raw id is *)
(* [prefix, name].  pat tells what is wrong with the two patterns.         *)
(***************************************************************************)
NoSpecies == ""

NoRawId == [prefix |-> "", name |-> ""]

\* the id_type argument
IdType == "gene"

\* id_regex.captures(id)
IdCaptures(raw_id) ==
    IF raw_id.prefix = "gene:" THEN [ok |-> TRUE, id |-> raw_id.name]
    ELSE [ok |-> FALSE, id |-> ""]

\* Record::is_class: every BED record, the GFF records of that class
is_class(r, ext, class) == IF ext = "bed" THEN TRUE ELSE r.class = class

\* a run without error: the outcome every check passes on
Passed == [ok |-> TRUE, kind |-> "Ok", id |-> "", records |-> <<>>]

\* an error or a panic of the run
Failed(kind, id) == [ok |-> FALSE, kind |-> kind, id |-> id, records |-> <<>>]

\* a record loop that skips the ids the pattern does not match
RECURSIVE ScanRecords_SkipUnmatched(_, _, _)
ScanRecords_SkipUnmatched(raw, n, ext) ==
    IF n = 0 THEN Passed
    ELSE LET before == ScanRecords_SkipUnmatched(raw, n - 1, ext)
             r == raw[n]
         IN  IF ~before.ok THEN before
             ELSE IF r.decode = "error" THEN Failed("ParseError", NoRawId)
             ELSE IF r.decode = "panic" THEN Failed("Panic", NoRawId)
             ELSE IF ~is_class(r, ext, IdType) THEN before
             ELSE IF r.raw_id = NoRawId THEN Failed("RecordWithoutId", NoRawId)
             ELSE IF ~IdCaptures(r.raw_id).ok THEN before
             ELSE [before EXCEPT !.records =
                      Append(@, [id |-> IdCaptures(r.raw_id).id, chr |-> r.chr,
                                 start |-> r.start, stop |-> r.stop, dir |-> r.dir])]

\* the record loop up to the family lookup: the first error or panic among
\* raw[1..n], or the records that reach the lookup, with their canonical id
RECURSIVE ScanRecords(_, _, _)
ScanRecords(raw, n, ext) ==
    IF n = 0 THEN Passed
    ELSE LET before == ScanRecords(raw, n - 1, ext)
             r == raw[n]
         IN  IF ~before.ok THEN before
             ELSE IF r.decode = "error" THEN Failed("ParseError", NoRawId)
             ELSE IF r.decode = "panic" THEN Failed("Panic", NoRawId)
             ELSE IF ~is_class(r, ext, IdType) THEN before
             ELSE IF r.raw_id = NoRawId THEN Failed("RecordWithoutId", NoRawId)
             ELSE IF ~IdCaptures(r.raw_id).ok THEN Failed("IdNotFound", r.raw_id)
             ELSE [before EXCEPT !.records =
                      Append(@, [id |-> IdCaptures(r.raw_id).id, chr |-> r.chr,
                                 start |-> r.start, stop |-> r.stop, dir |-> r.dir])]

\* the checks in the order of the code: the id pattern, the species
\* pattern, the species of the file name, the file type, the open
parse_file(f, pat) ==
    IF pat = "id_invalid" THEN Failed("InvalidRegex", NoRawId)
    ELSE IF pat = "id_no_group" THEN Failed("MissingCaptureGroup", NoRawId)
    ELSE IF pat = "species_invalid" THEN Failed("InvalidRegex", NoRawId)
    ELSE IF pat = "species_no_group" THEN Failed("MissingCaptureGroup", NoRawId)
    ELSE IF f.species = NoSpecies THEN Failed("SpeciesNotFound", NoRawId)
    ELSE IF f.ext \notin {"gff3", "bed"} THEN Failed("UnknownFiletype", NoRawId)
    ELSE IF ~f.readable THEN Failed("CannotOpen", NoRawId)
    ELSE Passed

\* parse_genome on a raw file: [ok, kind, id, records, genomes]
parse_genome_file(f, pat, genomes0, index) ==
    LET opened == parse_file(f, pat)
        scanned == IF opened.ok THEN ScanRecords(f.raw, Len(f.raw), f.ext) ELSE opened
    IN  IF scanned.ok
        THEN scanned @@ [genomes |->
                parse_genome([species |-> f.species, records |-> scanned.records],
                             genomes0, index)]
        ELSE scanned @@ [genomes |-> genomes0]

\* a run that opens the database and drops the table before it reads its files
ReturnError_AfterDrop(tbl) == SubSeq(tbl, 1, 0)

\* `?` in the family loop and in the annotation loop returns before
\* Connection::open: the database is as the run found it
ReturnError(tbl) == tbl

(***************************************************************************)
(* Landscape Window Computer and row insertion (dbmaker::db_from_files).   *)
(* j is the 0-based index of the code; ids is 1-based here.                *)
(***************************************************************************)
\* ids[i..j]: a valid range of a slice of length n
RangeOk(i, j, n) == i <= j /\ j <= n

\* a left window one gene too wide
WindowLeftStart_TooWide(j, window) == Max(0, j - window - 1)

WindowLeftStart(j, window) == Max(0, j - window)

WindowRightEnd(n, j, window) == Min(n - 1, j + window)

\* a left slice collected nearest gene first
left_landscape_ids_NearestFirst(ids, j, window) ==
    LET i == WindowLeftStart(j, window)
    IN  [t \in 1..(j - i) |-> FormatTail(ids[j + 1 - t])]

\* ids[i..j].iter().map(format).collect()
left_landscape_ids(ids, j, window) ==
    LET i == WindowLeftStart(j, window)
    IN  [t \in 1..(j - i) |-> FormatTail(ids[i + t])]

\* ids[j + 1..=k].iter().map(format).collect()
right_landscape_ids(ids, j, window) ==
    LET k == WindowRightEnd(Len(ids), j, window)
    IN  [t \in 1..(k - j) |-> FormatTail(ids[j + 1 + t])]

\* both slices of gene j are in range (the code panics otherwise)
WindowOk(ids, j, window) ==
    /\ RangeOk(WindowLeftStart(j, window), j, Len(ids))
    /\ RangeOk(j + 1, WindowRightEnd(Len(ids), j, window) + 1, Len(ids))

\* the value an INTEGER column holds after the insert of a formatted usize
IntegerColumn(n) == ParseUsize(FormatUsize(n)).v

\* the row of the INSERT statement for gene j of a chromosome
InsertRow(species, chr, ids, j, window) ==
    LET a == ids[j + 1]
    IN  [species |-> species, chr |-> chr,
         ancestral_id |-> IntegerColumn(a.ancestral_id),
         id |-> a.id,
         start |-> IntegerColumn(a.start),
         stop |-> IntegerColumn(a.stop),
         direction |-> StrandString(a.dir),
         left_tail_ids |-> Join(left_landscape_ids(ids, j, window), "."),
         right_tail_ids |-> Join(right_landscape_ids(ids, j, window), ".")]

\* the rows of one transaction: every gene of the chromosome, in list order
ChromosomeRows(species, chr, ids, window) ==
    [t \in 1..Len(ids) |-> InsertRow(species, chr, ids, t - 1, window)]


(***************************************************************************)
(* Landscape Query Engine (genebook::GeneBook).                            *)
(* The id column is `id`.  A result is [kind, gene]: kind is "Ok",         *)
(* "UnknownId" (DataError::UnknownId), "StorageError" (a rusqlite error    *)
(* with the context "while accessing DB") or "Panic".                      *)
(***************************************************************************)
\* Gene::default()
NoGene ==
    [id |-> "", species |-> "", family |-> 0, chr |-> "", pos |-> 0,
     strand |-> StrandDefault, left_landscape |-> <<>>, right_landscape |-> <<>>]

\* the closure of get_rows for one row; ok = FALSE when it panics
RowGenePreload(r, w) ==
    LET left == parse_landscape(r.left_tail_ids)
        right == parse_landscape(r.right_tail_ids)
        strand == StrandFromStr(r.direction)
    IN  [ok |-> left.ok /\ right.ok /\ strand.ok,
         gene |-> [id |-> r.id, species |-> r.species, family |-> r.ancestral_id,
                   chr |-> r.chr, pos |-> r.start, strand |-> strand.v,
                   left_landscape |-> TruncateLeft(left.v, w),
                   right_landscape |-> TruncateRight(right.v, w)]]

\* get_rows: the rows collected into a HashMap, a later row replacing an
\* earlier one of the same id; ok = FALSE when a row makes it panic
get_rows(rows, w) ==
    LET keys == {rows[i].id : i \in 1..Len(rows)}
        last(g) == CHOOSE i \in 1..Len(rows) :
                      rows[i].id = g /\ \A k \in (i + 1)..Len(rows) : rows[k].id # g
    IN  [ok |-> \A i \in 1..Len(rows) : RowGenePreload(rows[i], w).ok,
         genes |-> [g \in keys |-> RowGenePreload(rows[last(g)], w).gene]]

\* SELECT DISTINCT species FROM genomes
DistinctSpecies(rows) == {rows[i].species : i \in 1..Len(rows)}

\* SELECT ... FROM genomes WHERE id IN (ids)
RowsIn(rows, ids) == SelectSeq(rows, LAMBDA r : r.id \in ids)

\* the closure of query_row in get for the row found; ok = FALSE when it panics
RowGeneInline(g, r, w) ==
    LET left == parse_landscape(r.left_tail_ids)
        right == parse_landscape(r.right_tail_ids)
        first == IF r.direction = <<>> THEN [ok |-> FALSE, v |-> StrandDefault]
                 ELSE StrandFromChar(r.direction[1])
    IN  [ok |-> left.ok /\ right.ok,
         gene |-> [id |-> g, species |-> r.species, family |-> r.ancestral_id,
                   chr |-> r.chr, pos |-> r.start,
                   strand |-> IF first.ok THEN first.v ELSE StrandDefault,
                   left_landscape |-> TruncateLeft(left.v, w),
                   right_landscape |-> TruncateRight(right.v, w)]]

\* no book; the fields window and ids of a book record the arguments it was
\* built with
NoBook == [kind |-> "None", genes |-> EmptyIndex, species |-> {}, window |-> 0, ids |-> {}]

\* GeneBook::in_memory; kind "None" when the constructor panics
in_memory(rows, w) ==
    LET loaded == get_rows(rows, w)
    IN  IF loaded.ok
        THEN [kind |-> "InMemory", genes |-> loaded.genes,
              species |-> DistinctSpecies(rows), window |-> w, ids |-> {}]
        ELSE NoBook

\* GeneBook::cached; kind "None" when the constructor panics
cached(rows, w, ids) ==
    LET loaded == get_rows(RowsIn(rows, ids), w)
    IN  IF loaded.ok
        THEN [kind |-> "Cached", genes |-> loaded.genes,
              species |-> DistinctSpecies(rows), window |-> w, ids |-> ids]
        ELSE NoBook

\* GeneBook::inline: the connection is the table itself
inline(w) ==
    [kind |-> "Inline", genes |-> EmptyIndex, species |-> {}, window |-> w, ids |-> {}]

\* GeneBook::get on a book over the rows of the table
get(b, rows, g) ==
    IF b.kind \in {"InMemory", "Cached"}
    THEN IF g \in DOMAIN b.genes
         THEN [kind |-> "Ok", gene |-> b.genes[g]]
         ELSE [kind |-> "UnknownId", gene |-> NoGene]
    ELSE LET found == SelectSeq(rows, LAMBDA r : r.id = g)
         IN  IF found = <<>>
             THEN [kind |-> "StorageError", gene |-> NoGene]
             ELSE LET made == RowGeneInline(g, found[1], b.window)
                  IN  IF made.ok THEN [kind |-> "Ok", gene |-> made.gene]
                      ELSE [kind |-> "Panic", gene |-> NoGene]

\* an equality that compares the strands too, as a derived PartialEq would
TailGeneEq_Derived(a, b) == a.family = b.family /\ a.strand = b.strand

\* impl PartialEq for TailGene: eq
TailGeneEq(a, b) == a.family = b.family

\* a landscape without the gene itself
landscape_NoSelf(gene) == gene.left_landscape \o gene.right_landscape

\* Gene::landscape: the iterator, collected
landscape(gene) ==
    gene.left_landscape
        \o <<[family |-> gene.family, strand |-> gene.strand]>>
        \o gene.right_landscape

\* a get_mut that looks the id up before it refuses
get_mut_LooksUp(b, g) ==
    IF b.kind = "Inline" /\ g \in b.ids THEN "ImmutableBook"
    ELSE IF g \in DOMAIN b.genes THEN "Ok" ELSE "UnknownId"

\* GeneBook::get_mut: the kind of its result
get_mut(b, g) ==
    IF b.kind \in {"InMemory", "Cached"}
    THEN IF g \in DOMAIN b.genes THEN "Ok" ELSE "UnknownId"
    ELSE "ImmutableBook"

\* a lock that is granted while another call holds the mutex
Unlocked_Always(m) == m.holder # ""

\* conn_mutex.lock() is granted: no call holds the guard
Unlocked(m) == m.holder = "none"

\* the guard is dropped at the end of the call
Release(m) == [m EXCEPT !.holder = "none"]

\* the guard is dropped by the unwinding of a panic: the mutex is poisoned
ReleaseByPanic(m) == [holder |-> "none", poisoned |-> TRUE]

(***************************************************************************)
(* Inputs of the model.                                                    *)
(***************************************************************************)
\* every record a decoder can hand over, within the bounds
Records ==
    {[id |-> i, chr |-> c, start |-> s, stop |-> s, dir |-> d] :
        i \in Ids, c \in Chrs, s \in 1..MaxStart, d \in Strands}

\* every annotation file of species sA with at most MaxRecords records
AllFiles ==
    {[species |-> "sA", records |-> rs] :
        rs \in UNION {[1..n -> Records] : n \in 0..MaxRecords}}

\* the gene lines of the annotation files of the end-to-end runs
GeneLines ==
    { [id |-> "g1", chr |-> "c1", start |-> 1, stop |-> 1, dir |-> "Direct"],
      [id |-> "g2", chr |-> "c1", start |-> 2, stop |-> 2, dir |-> "Reverse"],
      [id |-> "g3", chr |-> "c1", start |-> 2, stop |-> 2, dir |-> "Direct"],
      [id |-> "g3", chr |-> "c1", start |-> 1, stop |-> 1, dir |-> "Unknown"] }

\* the annotation files of the end-to-end runs: either species, at most
\* MaxLines gene lines
RunFiles ==
    {[species |-> sp, records |-> rs] :
        sp \in SpeciesNames, rs \in UNION {[1..n -> GeneLines] : n \in 0..MaxLines}}

\* the id sets given to GeneBook::cached
CachedIds == { {"g1"}, {"g1", "g3"} }

\* the family files of the runs whose ingestion is explored
FamilyInputs == { <<{"g1"}, {"g2"}>>, <<{"g1", "g3"}, {"g2"}>> }

\* the tables of the databases the threads share a book of: no row, a
\* chromosome of two genes, and one whose first gene has no known strand
LazyTables ==
    { <<>>,
      ChromosomeRows("sA", "c1",
          << [id |-> "g1", dir |-> "Direct", start |-> 1, stop |-> 1, ancestral_id |-> 1],
             [id |-> "g2", dir |-> "Reverse", start |-> 2, stop |-> 2, ancestral_id |-> 2] >>, 1),
      ChromosomeRows("sA", "c1",
          << [id |-> "g1", dir |-> "Unknown", start |-> 1, stop |-> 1, ancestral_id |-> 1],
             [id |-> "g2", dir |-> "Reverse", start |-> 2, stop |-> 2, ancestral_id |-> 2] >>, 1) }

\* the ids the threads ask for
CallIds == {"g1", "g2", AbsentId}

\* the lines of the raw annotation files
RawLines ==
    LET line(decode, class, prefix, name, start, dir) ==
            [decode |-> decode, class |-> class,
             raw_id |-> [prefix |-> prefix, name |-> name],
             chr |-> "c1", start |-> start, stop |-> start, dir |-> dir]
    IN  { line("ok", "gene", "gene:", "g1", 1, "Direct"),
          line("ok", "gene", "gene:", "g2", 2, "Reverse"),
          line("ok", "gene", "tx:", "g1", 1, "Direct"),
          line("ok", "mRNA", "tx:", "g1", 1, "Direct"),
          line("ok", "gene", "", "", 1, "Direct"),
          line("error", "gene", "gene:", "g1", 1, "Direct"),
          line("panic", "gene", "gene:", "g1", 1, "Direct") }

\* the raw annotation files: GFF3 and BED files of species sA with at most
\* MaxLines lines, a file without species, one of an unknown type, one
\* that does not open
RawFiles ==
    {[species |-> "sA", ext |-> e, readable |-> TRUE, raw |-> ls] :
        e \in {"gff3", "bed"}, ls \in UNION {[1..n -> RawLines] : n \in 0..MaxLines}}
    \cup {[species |-> NoSpecies, ext |-> "gff3", readable |-> TRUE, raw |-> <<>>],
          [species |-> "sA", ext |-> "txt", readable |-> TRUE, raw |-> <<>>],
          [species |-> "sA", ext |-> "gff3", readable |-> FALSE, raw |-> <<>>]}

\* what can be wrong with the id pattern and the species pattern of a run
PatternKinds == {"ok", "id_invalid", "id_no_group", "species_invalid", "species_no_group"}

\* the family files of the runs that start from a database of an earlier run
RunTokens == { {"g1"}, {"g2"} }

\* the TailGene values that are compared
TailGenes == {[family |-> f, strand |-> d] : f \in {5, 6, 7}, d \in Strands}

(***************************************************************************)
(* State.                                                                  *)
(***************************************************************************)
VARIABLES
    pc,                    \* position in db_from_files, then "done"
    current_ancestral_id,  \* db_from_files: the next family id
    id2ancestral,          \* db_from_files: member id -> family id
    fam_log,               \* the family files processed so far, in order
    genomes,               \* db_from_files: species -> chr -> annotations
    gff_log,               \* the annotation files processed so far, in order
    window,                \* db_from_files: the build-time window
    table,                 \* the committed rows of `genomes`, in rowid order
    pending,               \* the (species, chr) pairs not yet inserted
    book,                  \* the GeneBook of the caller
    res,                   \* the last call of the caller and its result
    tx,                    \* db_from_files: the open transaction and its rows
    conn_mutex,            \* GeneBook::Inline: the Mutex of the connection
    calls                  \* the call each thread is in on the shared book

vars == <<pc, current_ancestral_id, id2ancestral, fam_log, genomes, gff_log,
          window, table, pending, book, res, tx, conn_mutex, calls>>

NoResult == [op |-> "none", id |-> "", kind |-> "none", gene |-> NoGene]

\* no transaction is open
NoTx == [open |-> FALSE, species |-> "", chr |-> "", done |-> 0, rows |-> <<>>]

\* Mutex::new(conn)
NewMutex == [holder |-> "none", poisoned |-> FALSE]

\* the threads that share the book
Threads == {"t1", "t2"}

\* a thread that is in no call
Idle == [op |-> "none", id |-> "", at |-> "idle", kind |-> "none"]

\* the state in which db_from_files starts
InitFam ==
    /\ pc = "families"
    /\ current_ancestral_id = FirstAncestralId
    /\ id2ancestral = EmptyIndex
    /\ fam_log = <<>>
    /\ genomes = EmptyGenomes
    /\ gff_log = <<>>
    /\ window = 0
    /\ table = <<>>
    /\ pending = {}
    /\ book = NoBook
    /\ res = NoResult
    /\ tx = NoTx
    /\ conn_mutex = NewMutex
    /\ calls = [t \in Threads |-> Idle]

\* the state of db_from_files after its family loop over one of FamilyInputs
Init ==
    /\ pc = "genomes"
    /\ fam_log \in FamilyInputs
    /\ current_ancestral_id = BuildIndex(fam_log).next
    /\ id2ancestral = BuildIndex(fam_log).index
    /\ genomes = EmptyGenomes
    /\ gff_log = <<>>
    /\ window = 0
    /\ table = <<>>
    /\ pending = {}
    /\ book = NoBook
    /\ res = NoResult
    /\ tx = NoTx
    /\ conn_mutex = NewMutex
    /\ calls = [t \in Threads |-> Idle]

(***************************************************************************)
(* Actions.                                                                *)
(***************************************************************************)
\* parse_family on the next family file
ParseFamily(tokens) ==
    /\ pc = "families"
    /\ Len(fam_log) < MaxFamilies
    /\ id2ancestral' = FamilyInsert(id2ancestral, tokens, current_ancestral_id)
    /\ current_ancestral_id' = current_ancestral_id + 1
    /\ fam_log' = Append(fam_log, tokens)
    /\ UNCHANGED <<pc, genomes, gff_log, window, table, pending, book, res>>
    /\ UNCHANGED <<tx, conn_mutex, calls>>

\* parse_genome on the next annotation file
ParseGenome(file) ==
    /\ pc = "genomes"
    /\ Len(gff_log) < MaxFiles
    /\ genomes' = parse_genome(file, genomes, id2ancestral)
    /\ gff_log' = Append(gff_log, file)
    /\ UNCHANGED <<pc, current_ancestral_id, id2ancestral, fam_log, window,
                   table, pending, book, res>>
    /\ UNCHANGED <<tx, conn_mutex, calls>>

\* parse_family cannot open the next family file
ParseFamilyFails ==
    /\ pc = "families"
    /\ pc' = "failed"
    /\ table' = ReturnError(table)
    /\ res' = [op |-> "db_from_files", id |-> NoRawId, kind |-> "CannotOpen",
               gene |-> NoGene]
    /\ UNCHANGED <<current_ancestral_id, id2ancestral, fam_log, genomes, gff_log,
                   window, pending, book, tx, conn_mutex, calls>>

\* the family loop ends
FamiliesDone ==
    /\ pc = "families"
    /\ pc' = "genomes"
    /\ UNCHANGED <<current_ancestral_id, id2ancestral, fam_log, genomes, gff_log,
                   window, table, pending, book, res, tx, conn_mutex, calls>>

\* parse_genome on the next raw annotation file: the file is ingested, or
\* the run ends with the error; a wrong pattern fails the first file
ParseGenomeFile(f, pat) ==
    /\ pc = "genomes"
    /\ Len(gff_log) < MaxFiles
    /\ pat # "ok" => gff_log = <<>>
    /\ LET parsed == parse_genome_file(f, pat, genomes, id2ancestral)
       IN  IF parsed.ok
           THEN /\ genomes' = parsed.genomes
                /\ gff_log' = Append(gff_log, [species |-> f.species,
                                               records |-> parsed.records,
                                               raw |-> f.raw, ext |-> f.ext])
                /\ UNCHANGED <<pc, table, res>>
           ELSE /\ pc' = "failed"
                /\ table' = ReturnError(table)
                /\ res' = [op |-> "db_from_files", id |-> parsed.id,
                           kind |-> parsed.kind, gene |-> NoGene, file |-> f]
                /\ UNCHANGED <<genomes, gff_log>>
    /\ UNCHANGED <<current_ancestral_id, id2ancestral, fam_log, window, pending,
                   book, tx, conn_mutex, calls>>

\* the keys of the two nested maps
ChromosomeKeys(g) == {p \in SpeciesNames \X Chrs : g[p[1]][p[2]] # <<>>}

\* DROP TABLE IF EXISTS, CREATE TABLE; the window argument is drawn here,
\* where the code first reads it
CreateTable(w) ==
    /\ pc = "genomes"
    /\ window' = w
    /\ table' = <<>>
    /\ pending' = ChromosomeKeys(genomes)
    /\ pc' = "fill"
    /\ UNCHANGED <<current_ancestral_id, id2ancestral, fam_log, genomes, gff_log,
                   book, res>>
    /\ UNCHANGED <<tx, conn_mutex, calls>>

\* one transaction: the rows of one chromosome, committed together; the
\* chromosomes of a species follow each other (the inner loop), in the
\* arbitrary order of HashMap iteration
InsertChromosome(sp, chr) ==
    /\ pc = "fill"
    /\ <<sp, chr>> \in pending
    /\ \A c \in Chrs :
          (table # <<>> /\ <<table[Len(table)].species, c>> \in pending)
              => sp = table[Len(table)].species
    /\ \A j \in 0..(Len(genomes[sp][chr]) - 1) : WindowOk(genomes[sp][chr], j, window)
    /\ table' = table \o ChromosomeRows(sp, chr, genomes[sp][chr], window)
    /\ pending' = pending \ {<<sp, chr>>}
    /\ UNCHANGED <<pc, current_ancestral_id, id2ancestral, fam_log, genomes,
                   gff_log, window, book, res>>
    /\ UNCHANGED <<tx, conn_mutex, calls>>

\* The same transaction statement by statement, as another connection
\* sees it: conn.transaction() on the next chromosome
BeginTransaction(sp, chr) ==
    /\ pc = "fill"
    /\ ~tx.open
    /\ <<sp, chr>> \in pending
    /\ \A c \in Chrs :
          (table # <<>> /\ <<table[Len(table)].species, c>> \in pending)
              => sp = table[Len(table)].species
    /\ tx' = [open |-> TRUE, species |-> sp, chr |-> chr, done |-> 0, rows |-> <<>>]
    /\ UNCHANGED <<pc, current_ancestral_id, id2ancestral, fam_log, genomes,
                   gff_log, window, table, pending, book, res, conn_mutex, calls>>

\* a statement that autocommits, as conn.execute does outside a transaction
TxExecute_Autocommit(tbl, t, row) ==
    [table |-> Append(tbl, row), tx |-> [t EXCEPT !.done = @ + 1]]

\* tx.execute(&insert, []): the row belongs to the transaction until it commits
TxExecute(tbl, t, row) ==
    [table |-> tbl, tx |-> [t EXCEPT !.done = @ + 1, !.rows = Append(@, row)]]

\* the INSERT of the next gene of the chromosome
ExecuteInsert ==
    /\ pc = "fill"
    /\ tx.open
    /\ tx.done < Len(genomes[tx.species][tx.chr])
    /\ WindowOk(genomes[tx.species][tx.chr], tx.done, window)
    /\ LET after == TxExecute(table, tx,
                         InsertRow(tx.species, tx.chr, genomes[tx.species][tx.chr],
                                   tx.done, window))
       IN  table' = after.table /\ tx' = after.tx
    /\ UNCHANGED <<pc, current_ancestral_id, id2ancestral, fam_log, genomes,
                   gff_log, window, pending, book, res, conn_mutex, calls>>

\* tx.commit() after the last gene
Commit ==
    /\ pc = "fill"
    /\ tx.open
    /\ tx.done = Len(genomes[tx.species][tx.chr])
    /\ table' = table \o tx.rows
    /\ pending' = pending \ {<<tx.species, tx.chr>>}
    /\ tx' = NoTx
    /\ UNCHANGED <<pc, current_ancestral_id, id2ancestral, fam_log, genomes,
                   gff_log, window, book, res, conn_mutex, calls>>

\* tx.execute or tx.commit returns an error: `?` returns it, the transaction
\* is dropped and rolls back; tx keeps the key of the chromosome that failed
TransactionFails ==
    /\ pc = "fill"
    /\ tx.open
    /\ tx' = [tx EXCEPT !.open = FALSE, !.rows = <<>>]
    /\ pc' = "failed"
    /\ UNCHANGED <<current_ancestral_id, id2ancestral, fam_log, genomes, gff_log,
                   window, table, pending, book, res, conn_mutex, calls>>

\* a SELECT of every row on another connection: it reads the committed rows
Select ==
    /\ res' = [op |-> "select", id |-> "", kind |-> "Ok", gene |-> NoGene,
               rows |-> table]
    /\ UNCHANGED <<pc, current_ancestral_id, id2ancestral, fam_log, genomes,
                   gff_log, window, table, pending, book, tx, conn_mutex, calls>>

\* CREATE INDEX after the last chromosome, then db_from_files returns: its
\* arguments and locals are gone, the table stays
CreateIndices ==
    /\ pc = "fill"
    /\ pending = {}
    /\ ~tx.open
    /\ pc' = "done"
    /\ current_ancestral_id' = FirstAncestralId
    /\ id2ancestral' = EmptyIndex
    /\ fam_log' = <<>>
    /\ genomes' = EmptyGenomes
    /\ gff_log' = <<>>
    /\ window' = 0
    /\ UNCHANGED <<table, pending, book, res>>
    /\ UNCHANGED <<tx, conn_mutex, calls>>

\* GeneBook::in_memory(db_file, w, "id")
OpenInMemory(w) ==
    /\ pc = "done"
    /\ book' = in_memory(table, w)
    /\ res' = [op |-> "in_memory", id |-> "",
               kind |-> IF book'.kind = "None" THEN "Panic" ELSE "Ok", gene |-> NoGene]
    /\ UNCHANGED <<pc, current_ancestral_id, id2ancestral, fam_log, genomes,
                   gff_log, window, table, pending>>
    /\ UNCHANGED <<tx, conn_mutex, calls>>

\* GeneBook::cached(db_file, w, "id", ids)
OpenCached(w, ids) ==
    /\ pc = "done"
    /\ book' = cached(table, w, ids)
    /\ res' = [op |-> "cached", id |-> "",
               kind |-> IF book'.kind = "None" THEN "Panic" ELSE "Ok", gene |-> NoGene]
    /\ UNCHANGED <<pc, current_ancestral_id, id2ancestral, fam_log, genomes,
                   gff_log, window, table, pending>>
    /\ UNCHANGED <<tx, conn_mutex, calls>>

\* GeneBook::inline(db_file, w, "id")
OpenInline(w) ==
    /\ pc = "done"
    /\ book' = inline(w)
    /\ res' = [op |-> "inline", id |-> "", kind |-> "Ok", gene |-> NoGene]
    /\ UNCHANGED <<pc, current_ancestral_id, id2ancestral, fam_log, genomes,
                   gff_log, window, table, pending>>
    /\ UNCHANGED <<tx, conn_mutex, calls>>

\* GeneBook::get(g)
Get(g) ==
    /\ pc = "done"
    /\ book.kind # "None"
    /\ res' = [op |-> "get", id |-> g] @@ get(book, table, g)
    /\ UNCHANGED <<pc, current_ancestral_id, id2ancestral, fam_log, genomes,
                   gff_log, window, table, pending, book>>
    /\ UNCHANGED <<tx, conn_mutex, calls>>

\* a thread enters get or species of the shared Inline book
CallInline(t, op, g) ==
    /\ pc = "done"
    /\ book.kind = "Inline"
    /\ calls[t].at = "idle"
    /\ calls' = [calls EXCEPT ![t] = [op |-> op, id |-> g, at |-> "lock", kind |-> "none"]]
    /\ UNCHANGED <<pc, current_ancestral_id, id2ancestral, fam_log, genomes,
                   gff_log, window, table, pending, book, res, tx, conn_mutex>>

\* conn_mutex.lock() returns the guard
Lock(t) ==
    /\ calls[t].at = "lock"
    /\ Unlocked(conn_mutex)
    /\ ~conn_mutex.poisoned
    /\ conn_mutex' = [conn_mutex EXCEPT !.holder = t]
    /\ calls' = [calls EXCEPT ![t].at = "prepare"]
    /\ UNCHANGED <<pc, current_ancestral_id, id2ancestral, fam_log, genomes,
                   gff_log, window, table, pending, book, res, tx>>

\* conn_mutex.lock() returns a PoisonError: expect("MUTEX POISONING") panics
LockPoisoned(t) ==
    /\ calls[t].at = "lock"
    /\ Unlocked(conn_mutex)
    /\ conn_mutex.poisoned
    /\ calls' = [calls EXCEPT ![t].at = "panicked", ![t].kind = "Poisoned"]
    /\ UNCHANGED <<pc, current_ancestral_id, id2ancestral, fam_log, genomes,
                   gff_log, window, table, pending, book, res, tx, conn_mutex>>

\* conn.prepare(..) succeeds
Prepare(t) ==
    /\ calls[t].at = "prepare"
    /\ calls' = [calls EXCEPT ![t].at = "query"]
    /\ UNCHANGED <<pc, current_ancestral_id, id2ancestral, fam_log, genomes,
                   gff_log, window, table, pending, book, res, tx, conn_mutex>>

\* query_row / query_map runs and the call ends: get returns its result, or
\* panics in parse_landscape with the guard held
Query(t) ==
    /\ calls[t].at = "query"
    /\ LET kind == IF calls[t].op = "get" THEN get(book, table, calls[t].id).kind
                   ELSE "Ok"
       IN  IF kind = "Panic"
           THEN /\ calls' = [calls EXCEPT ![t].at = "panicked", ![t].kind = kind]
                /\ conn_mutex' = ReleaseByPanic(conn_mutex)
           ELSE /\ calls' = [calls EXCEPT ![t].at = "idle", ![t].kind = kind]
                /\ conn_mutex' = Release(conn_mutex)
    /\ UNCHANGED <<pc, current_ancestral_id, id2ancestral, fam_log, genomes,
                   gff_log, window, table, pending, book, res, tx>>

\* the storage operation in flight fails: get returns the error (`?`,
\* with_context), species unwraps it
StorageFails(t) ==
    /\ calls[t].at \in {"prepare", "query"}
    /\ IF calls[t].op = "get"
       THEN /\ calls' = [calls EXCEPT ![t].at = "idle", ![t].kind = "StorageError"]
            /\ conn_mutex' = Release(conn_mutex)
       ELSE /\ calls' = [calls EXCEPT ![t].at = "panicked", ![t].kind = "StorageError"]
            /\ conn_mutex' = ReleaseByPanic(conn_mutex)
    /\ UNCHANGED <<pc, current_ancestral_id, id2ancestral, fam_log, genomes,
                   gff_log, window, table, pending, book, res, tx>>

\* get or species of a preloaded book: a read of the HashMap or of the Vec
CallPreload(t, op, g) ==
    /\ pc = "done"
    /\ book.kind \in {"InMemory", "Cached"}
    /\ calls[t].at = "idle"
    /\ calls' = [calls EXCEPT ![t] =
                    [op |-> op, id |-> g, at |-> "idle",
                     kind |-> IF op = "get" THEN get(book, table, g).kind ELSE "Ok"]]
    /\ UNCHANGED <<pc, current_ancestral_id, id2ancestral, fam_log, genomes,
                   gff_log, window, table, pending, book, res, tx, conn_mutex>>

\* get_mut(&mut self, g): the exclusive borrow keeps every other call out
GetMut(t, g) ==
    /\ pc = "done"
    /\ book.kind # "None"
    /\ \A u \in Threads : calls[u].at \in {"idle", "panicked"}
    /\ calls[t].at = "idle"
    /\ calls' = [calls EXCEPT ![t] =
                    [op |-> "get_mut", id |-> g, at |-> "idle", kind |-> get_mut(book, g)]]
    /\ UNCHANGED <<pc, current_ancestral_id, id2ancestral, fam_log, genomes,
                   gff_log, window, table, pending, book, res, tx, conn_mutex>>

\* gene.landscape().collect() on the Gene the last get returned
Landscape ==
    /\ pc = "done"
    /\ res.op = "get"
    /\ res.kind = "Ok"
    /\ res' = [op |-> "landscape", id |-> res.id, kind |-> "Ok", gene |-> res.gene,
               out |-> landscape(res.gene)]
    /\ UNCHANGED <<pc, current_ancestral_id, id2ancestral, fam_log, genomes,
                   gff_log, window, table, pending, book, tx, conn_mutex, calls>>

\* a == a, a == b, b == a, b == c and a == c on three TailGene values
CompareTailGenes(a, b, c) ==
    /\ res' = [op |-> "eq", id |-> "", kind |-> "Ok", gene |-> NoGene,
               a |-> a, b |-> b, c |-> c,
               aa |-> TailGeneEq(a, a), ab |-> TailGeneEq(a, b),
               ba |-> TailGeneEq(b, a), bc |-> TailGeneEq(b, c),
               ac |-> TailGeneEq(a, c)]
    /\ UNCHANGED <<pc, current_ancestral_id, id2ancestral, fam_log, genomes,
                   gff_log, window, table, pending, book, tx, conn_mutex, calls>>

\* the comparisons of TailGene values
NextTail == \E a \in TailGenes, b \in TailGenes, c \in TailGenes : CompareTailGenes(a, b, c)

\* the state in which db_from_files starts on the database of an earlier run
InitRun ==
    /\ pc = "families"
    /\ current_ancestral_id = FirstAncestralId
    /\ id2ancestral = EmptyIndex
    /\ fam_log = <<>>
    /\ genomes = EmptyGenomes
    /\ gff_log = <<>>
    /\ window = 0
    /\ table \in LazyTables
    /\ pending = {}
    /\ book = NoBook
    /\ res = NoResult
    /\ tx = NoTx
    /\ conn_mutex = NewMutex
    /\ calls = [t \in Threads |-> Idle]

\* a whole run over raw files, with its errors
NextRun ==
    \/ \E tokens \in RunTokens : ParseFamily(tokens)
    \/ ParseFamilyFails
    \/ FamiliesDone
    \/ \E f \in RawFiles, pat \in PatternKinds : ParseGenomeFile(f, pat)
    \/ \E w \in 0..MaxWindow : CreateTable(w)
    \/ \E sp \in SpeciesNames, chr \in Chrs : InsertChromosome(sp, chr)
    \/ CreateIndices

\* the state in which threads share a book over one of LazyTables
InitLazy ==
    /\ pc = "done"
    /\ current_ancestral_id = FirstAncestralId
    /\ id2ancestral = EmptyIndex
    /\ fam_log = <<>>
    /\ genomes = EmptyGenomes
    /\ gff_log = <<>>
    /\ window = 0
    /\ table \in LazyTables
    /\ pending = {}
    /\ book \in {inline(1), in_memory(table, 1), cached(table, 1, {"g1"})} \ {NoBook}
    /\ res = NoResult
    /\ tx = NoTx
    /\ conn_mutex = NewMutex
    /\ calls = [t \in Threads |-> Idle]

\* the calls of the threads on the shared book
NextLazy ==
    \/ \E t \in Threads, g \in CallIds : CallInline(t, "get", g)
    \/ \E t \in Threads : CallInline(t, "species", "")
    \/ \E t \in Threads : Lock(t)
    \/ \E t \in Threads : LockPoisoned(t)
    \/ \E t \in Threads : Prepare(t)
    \/ \E t \in Threads : Query(t)
    \/ \E t \in Threads : StorageFails(t)
    \/ \E t \in Threads, g \in CallIds : CallPreload(t, "get", g)
    \/ \E t \in Threads : CallPreload(t, "species", "")
    \/ \E t \in Threads, g \in CallIds : GetMut(t, g)

NextFam == \E tokens \in SUBSET Ids : ParseFamily(tokens)

\* the ingestion of one annotation file, any within the bounds, and the
\* filling of the table
NextBuild ==
    \/ gff_log = <<>> /\ \E file \in AllFiles : ParseGenome(file)
    \/ \E w \in 0..MaxWindow : CreateTable(w)
    \/ \E sp \in SpeciesNames, chr \in Chrs : InsertChromosome(sp, chr)
    \/ CreateIndices

\* end-to-end runs: ingestion of the RunFiles, the table, then the queries
Next ==
    \/ \E file \in RunFiles : ParseGenome(file)
    \/ \E w \in 0..MaxWindow : CreateTable(w)
    \/ \E sp \in SpeciesNames, chr \in Chrs : InsertChromosome(sp, chr)
    \/ CreateIndices
    \/ \E w \in 0..MaxWindow : OpenInMemory(w)
    \/ \E w \in 0..MaxWindow, ids \in CachedIds : OpenCached(w, ids)
    \/ \E w \in 0..MaxWindow : OpenInline(w)
    \/ \E g \in Ids \cup {AbsentId} : Get(g)
    \/ Landscape

\* a run whose transactions are followed statement by statement, with a
\* reader on another connection
NextTx ==
    \/ \E file \in RunFiles : ParseGenome(file)
    \/ \E w \in 0..MaxWindow : CreateTable(w)
    \/ \E sp \in SpeciesNames, chr \in Chrs : BeginTransaction(sp, chr)
    \/ ExecuteInsert
    \/ Commit
    \/ TransactionFails
    \/ CreateIndices
    \/ Select

SpecFam == InitFam /\ [][NextFam]_vars

SpecBuild == Init /\ [][NextBuild]_vars

SpecTx == Init /\ [][NextTx]_vars

SpecLazy == InitLazy /\ [][NextLazy]_vars

SpecRun == InitRun /\ [][NextRun]_vars

SpecTail == InitFam /\ [][NextTail]_vars

Spec == Init /\ [][Next]_vars


(***************************************************************************)
(* Notions the properties are stated with.                                 *)
(***************************************************************************)
\* the (family id, strand) pair of an annotation
TailOf(a) == [family |-> a.ancestral_id, strand |-> a.dir]

\* the last Min(n, Len(s)) elements of s, in their order
LastN(s, n) ==
    LET m == Min(n, Len(s)) IN [t \in 1..m |-> s[Len(s) - m + t]]

\* the first Min(n, Len(s)) elements of s, in their order
FirstN(s, n) == [t \in 1..Min(n, Len(s)) |-> s[t]]

\* the genes at the 0-based indices max(0, j-w) .. j-1, ascending
LeftNeighbours(ids, j, w) ==
    LET m == Min(j, w) IN [t \in 1..m |-> TailOf(ids[j - m + t])]

\* the genes at the 0-based indices j+1 .. min(N-1, j+w), ascending
RightNeighbours(ids, j, w) ==
    LET m == Min(Len(ids) - 1 - j, w) IN [t \in 1..m |-> TailOf(ids[j + 1 + t])]

\* the pairs a tail string holds, read off its text: every run of digits
\* is a family id and the character before the run is its strand
RECURSIVE TailsIn(_)
TailsIn(s) ==
    IF \A i \in 1..Len(s) : ~IsDigit(s[i]) THEN <<>>
    ELSE LET e == CHOOSE i \in 1..Len(s) :
                    IsDigit(s[i]) /\ \A k \in (i + 1)..Len(s) : ~IsDigit(s[k])
             b == CHOOSE i \in 1..e :
                    /\ \A k \in i..e : IsDigit(s[k])
                    /\ (i = 1 \/ ~IsDigit(s[i - 1]))
         IN  TailsIn(SubSeq(s, 1, b - 2)) \o
             <<[family |-> DigitsValue(SubSeq(s, b, e)),
                strand |-> IF b > 1 THEN StrandFromChar(s[b - 1]).v ELSE StrandDefault]>>

\* the chromosome has been written to the table and the run has not returned
Inserted(sp, chr) ==
    pc = "fill" /\ genomes[sp][chr] # <<>> /\ <<sp, chr>> \notin pending

\* the committed rows of a chromosome, in rowid order
RowsOf(sp, chr) == SelectSeq(table, LAMBDA r : r.species = sp /\ r.chr = chr)

\* the table holds a row of this id
InTable(g) == \E i \in 1..Len(table) : table[i].id = g

\* the result of the last call, as get returns it
LastResult == [kind |-> res.kind, gene |-> res.gene]

\* the number of the last file of fam_log that holds the token
LastFileOf(tok) ==
    CHOOSE i \in 1..Len(fam_log) :
        tok \in fam_log[i] /\ \A k \in (i + 1)..Len(fam_log) : tok \notin fam_log[k]

\* the annotations of a species, over its chromosomes, that carry an id
AnnotationsOf(sp, id) ==
    UNION {{<<c, i>> : i \in {k \in DOMAIN genomes[sp][c] : genomes[sp][c][k].id = id}} :
              c \in Chrs}

\* the records of the files of a species among gff_log[1..n], in the order
\* of their traversal
RECURSIVE RecordsOfSpecies(_, _)
RecordsOfSpecies(sp, n) ==
    IF n = 0 THEN <<>>
    ELSE RecordsOfSpecies(sp, n - 1) \o
         (IF gff_log[n].species = sp THEN gff_log[n].records ELSE <<>>)

\* the first record of the species that carries the id
FirstOccurrence(sp, id) ==
    LET recs == RecordsOfSpecies(sp, Len(gff_log))
    IN  recs[CHOOSE k \in 1..Len(recs) :
                recs[k].id = id /\ \A m \in 1..(k - 1) : recs[m].id # id]

\* every tail of the table is one that parse_landscape parses
TailsParse ==
    \A i \in 1..Len(table) :
        parse_landscape(table[i].left_tail_ids).ok /\ parse_landscape(table[i].right_tail_ids).ok

\* a file without the records whose id is in no family
WithoutNonFamily(file) ==
    [file EXCEPT !.records = SelectSeq(@, LAMBDA r : r.id \in DOMAIN id2ancestral)]

\* the genomes after the ingestion of files[1..n], each without its
\* non-family records
RECURSIVE IngestFamilyOnly(_, _)
IngestFamilyOnly(files, n) ==
    IF n = 0 THEN EmptyGenomes
    ELSE parse_genome(WithoutNonFamily(files[n]), IngestFamilyOnly(files, n - 1),
                      id2ancestral)

(***************************************************************************)
(* Properties.                                                             *)
(***************************************************************************)

\* C1: every tail list the build serializes is parsed back, by
\* parse_landscape, to the same list: same length, same family ids, same
\* strands, the empty list through the empty string.  The code does not do
\* this for a list that holds a gene of Unknown strand.
C1_RoundTrip ==
    \A sp \in SpeciesNames, chr \in Chrs :
        Inserted(sp, chr) =>
            \A j \in 0..(Len(genomes[sp][chr]) - 1) :
                LET ids == genomes[sp][chr]
                    r == RowsOf(sp, chr)[j + 1]
                IN  /\ parse_landscape(r.left_tail_ids) =
                          [ok |-> TRUE, v |-> LeftNeighbours(ids, j, window)]
                    /\ parse_landscape(r.right_tail_ids) =
                          [ok |-> TRUE, v |-> RightNeighbours(ids, j, window)]

\* C2: a get of an id that the table does not hold returns the unknown-id
\* error under every strategy.  The lazy strategy returns a storage error.
C2_UnknownIdEverywhere ==
    (pc = "done" /\ res.op = "get" /\ ~InTable(res.id)) => res.kind = "UnknownId"

\* C3: a get of an id that the table holds returns the same Gene as the full
\* preload, the filtered preload and the lazy strategy return for it with
\* the same window.  Stated for the tables whose tails all parse (C1 is
\* about the others); the code gives different genes when two rows carry
\* the id.
C3_SameGeneEverywhere ==
    (/\ pc = "done" /\ res.op = "get" /\ InTable(res.id) /\ TailsParse
     /\ book.kind = "Cached" => res.id \in book.ids) =>
        LET full == in_memory(table, book.window)
            part == cached(table, book.window, {res.id})
            lazy == inline(book.window)
        IN  /\ res.kind = "Ok"
            /\ full.kind = "InMemory" /\ get(full, table, res.id) = LastResult
            /\ part.kind = "Cached" /\ get(part, table, res.id) = LastResult
            /\ get(lazy, table, res.id) = LastResult

\* C4: for every window W >= 0 no slice of the window computation is out
\* of range, and the row written for gene j of a chromosome of N genes
\* holds min(j, W) pairs in its left tail and min(N-1-j, W) in its right.
C4_TailLengths ==
    /\ \A sp \in SpeciesNames, chr \in Chrs, w \in 0..MaxWindow :
          \A j \in 0..(Len(genomes[sp][chr]) - 1) : WindowOk(genomes[sp][chr], j, w)
    /\ \A sp \in SpeciesNames, chr \in Chrs :
          Inserted(sp, chr) =>
              LET N == Len(genomes[sp][chr])
                  rows == RowsOf(sp, chr)
              IN  /\ Len(rows) = N
                  /\ \A j \in 0..(N - 1) :
                        /\ Len(TailsIn(rows[j + 1].left_tail_ids)) = Min(j, window)
                        /\ Len(TailsIn(rows[j + 1].right_tail_ids)) = Min(N - 1 - j, window)

\* C4 witness: a chromosome of three genes written with window 1, so that
\* the window cuts the left tail of the last gene and the right tail of the
\* first
C4_Witness ==
    \E sp \in SpeciesNames, chr \in Chrs :
        Inserted(sp, chr) /\ Len(genomes[sp][chr]) = 3 /\ window = 1

\* C5: the list is sorted by start, and the row written for gene j holds in
\* its left tail the pairs of the genes max(0, j-W) .. j-1 in ascending
\* order and in its right tail those of the genes j+1 .. min(N-1, j+W) in
\* ascending order.
C5_TailContents ==
    \A sp \in SpeciesNames, chr \in Chrs :
        Inserted(sp, chr) =>
            LET ids == genomes[sp][chr]
                rows == RowsOf(sp, chr)
            IN  /\ \A i \in 1..(Len(ids) - 1) : ids[i].start <= ids[i + 1].start
                /\ \A j \in 0..(Len(ids) - 1) :
                      /\ rows[j + 1].id = ids[j + 1].id
                      /\ TailsIn(rows[j + 1].left_tail_ids) = LeftNeighbours(ids, j, window)
                      /\ TailsIn(rows[j + 1].right_tail_ids) = RightNeighbours(ids, j, window)

\* C5 witness: a chromosome of three genes written with window 2, whose
\* last gene has two left neighbours that differ
C5_Witness ==
    \E sp \in SpeciesNames, chr \in Chrs :
        /\ Inserted(sp, chr) /\ Len(genomes[sp][chr]) = 3 /\ window = 2
        /\ TailOf(genomes[sp][chr][1]) # TailOf(genomes[sp][chr][2])

\* C6: the left landscape a book returns is the last min(w, len) pairs of
\* the stored left tail and the right landscape the first min(w, len) pairs
\* of the stored right tail, each in the stored order, in the genes of a
\* preload and in the gene a lazy get returns.
C6_Truncation ==
    pc = "done" =>
        /\ \A g \in DOMAIN book.genes :
              \E i \in 1..Len(table) :
                  /\ table[i].id = g
                  /\ book.genes[g].left_landscape =
                         LastN(parse_landscape(table[i].left_tail_ids).v, book.window)
                  /\ book.genes[g].right_landscape =
                         FirstN(parse_landscape(table[i].right_tail_ids).v, book.window)
        /\ (res.op = "get" /\ res.kind = "Ok") =>
              \E i \in 1..Len(table) :
                  /\ table[i].id = res.id
                  /\ res.gene.left_landscape =
                         LastN(parse_landscape(table[i].left_tail_ids).v, book.window)
                  /\ res.gene.right_landscape =
                         FirstN(parse_landscape(table[i].right_tail_ids).v, book.window)

\* C6 witness: a lazy get with window 1 of a gene whose stored left tail
\* holds two pairs of different families; one is returned
C6_Witness ==
    /\ pc = "done" /\ book.kind = "Inline" /\ book.window = 1
    /\ res.op = "get" /\ res.kind = "Ok"
    /\ Len(res.gene.left_landscape) = 1
    /\ \E i \in 1..Len(table) :
          /\ table[i].id = res.id
          /\ LET stored == parse_landscape(table[i].left_tail_ids)
             IN  stored.ok /\ Len(stored.v) = 2 /\ stored.v[1].family # stored.v[2].family


\* C7 as the spec states it: one new family id for each family file, in
\* processing order, every token of the file mapped to it, the ids counted
\* from 0: after file A = {g1, g2} and file B = {g3}, g1->0, g2->0, g3->1.
C7_IdsFromZero ==
    /\ fam_log # <<>> =>
          \A tok \in fam_log[Len(fam_log)] : id2ancestral[tok] = Len(fam_log) - 1
    /\ fam_log = <<{"g1", "g2"}, {"g3"}>> =>
          id2ancestral = [x \in {"g1", "g2", "g3"} |-> IF x = "g3" THEN 1 ELSE 0]

\* C7 amended: one new family id for each family file, in processing
\* order, every token of the file mapped to it, the ids counted from 1:
\* after file A = {g1, g2} and file B = {g3}, g1->1, g2->1, g3->2.
C7_IdsFromOne ==
    /\ current_ancestral_id = Len(fam_log) + 1
    /\ DOMAIN id2ancestral = UNION {fam_log[i] : i \in 1..Len(fam_log)}
    /\ fam_log # <<>> =>
          \A tok \in fam_log[Len(fam_log)] : id2ancestral[tok] = Len(fam_log)
    /\ fam_log = <<{"g1", "g2"}, {"g3"}>> =>
          id2ancestral = [x \in {"g1", "g2", "g3"} |-> IF x = "g3" THEN 2 ELSE 1]

\* C7 witness: file A = {g1, g2} then file B = {g3} have been processed
C7_Witness ==
    fam_log = <<{"g1", "g2"}, {"g3"}>> /\ id2ancestral["g3"] = 2

\* C8: every member id maps to the family id of the last processed file
\* that holds it, whatever earlier files hold it too.
C8_LastFileWins ==
    \A tok \in Ids :
        IF \E i \in 1..Len(fam_log) : tok \in fam_log[i]
        THEN tok \in DOMAIN id2ancestral /\ id2ancestral[tok] = LastFileOf(tok)
        ELSE tok \notin DOMAIN id2ancestral

\* C8 witness: an id of the first and of the third file maps to the third
\* family, another id of the first file alone still maps to the first
C8_Witness ==
    /\ Len(fam_log) = 3
    /\ \E a \in fam_log[1] \cap fam_log[3], b \in fam_log[1] \ (fam_log[2] \cup fam_log[3]) :
          id2ancestral[a] = 3 /\ id2ancestral[b] = 1

\* C9: the genome of a species holds at most one Annotation for an id, and
\* it is the first record of that id among the files of the species.  The
\* code keeps one for each file of the species that holds the id.
C9_OnePerSpeciesAndId ==
    pc \in {"genomes", "fill"} =>
        \A sp \in SpeciesNames, id \in Ids :
            /\ Cardinality(AnnotationsOf(sp, id)) <= 1
            /\ \A p \in AnnotationsOf(sp, id) :
                  LET a == genomes[sp][p[1]][p[2]]
                      r == FirstOccurrence(sp, id)
                  IN  r.chr = p[1] /\ r.start = a.start /\ r.dir = a.dir

\* C10: no row is written for a record whose id is in no family, and the
\* rows of every chromosome, tails included, are those the run writes from
\* the same files without their non-family records.
C10_NonFamilyInvisible ==
    /\ pc = "fill" => \A i \in 1..Len(table) : table[i].id \in DOMAIN id2ancestral
    /\ \A sp \in SpeciesNames, chr \in Chrs :
          LET without == IngestFamilyOnly(gff_log, Len(gff_log))[sp][chr]
          IN  /\ pc \in {"genomes", "fill"} =>
                    \A i \in 1..Len(genomes[sp][chr]) :
                        genomes[sp][chr][i].id \in DOMAIN id2ancestral
              /\ Inserted(sp, chr) =>
                    RowsOf(sp, chr) = ChromosomeRows(sp, chr, without, window)
              /\ (pc = "fill" /\ without = <<>>) => RowsOf(sp, chr) = <<>>

\* C10 witness: a file with a non-family record between two family genes
\* of one chromosome, written with window 1: the two are each other's
\* only neighbour
C10_Witness ==
    /\ pc = "fill" /\ pending = {} /\ window = 1 /\ Len(gff_log) = 1
    /\ LET recs == gff_log[1].records
       IN  /\ Len(recs) = 3
           /\ recs[1].id \in DOMAIN id2ancestral
           /\ recs[2].id \notin DOMAIN id2ancestral
           /\ recs[3].id \in DOMAIN id2ancestral
           /\ recs[1].id # recs[3].id
           /\ recs[1].chr = recs[2].chr /\ recs[2].chr = recs[3].chr
           /\ recs[1].start <= recs[2].start /\ recs[2].start <= recs[3].start
           /\ Len(table) = 2
           /\ TailsIn(table[1].right_tail_ids) = <<[family |-> table[2].ancestral_id,
                                                     strand |-> recs[3].dir]>>


\* the rows of a chromosome among the rows a reader got
RowsRead(rows, sp, chr) == SelectSeq(rows, LAMBDA r : r.species = sp /\ r.chr = chr)

\* C11: while a run writes, a reader on another connection gets, for every
\* (species, chromosome), none of the rows of the chromosome or all of
\* them, and none of the chromosome whose transaction failed.
C11_NoPartialChromosome ==
    (pc \in {"fill", "failed"} /\ res.op = "select") =>
        /\ \A sp \in SpeciesNames, chr \in Chrs :
              \/ RowsRead(res.rows, sp, chr) = <<>>
              \/ RowsRead(res.rows, sp, chr) =
                    ChromosomeRows(sp, chr, genomes[sp][chr], window)
        /\ pc = "failed" => RowsRead(res.rows, tx.species, tx.chr) = <<>>

\* C11 witness: a reader got the two rows of one chromosome and none of
\* the next one, whose transaction failed after its first INSERT
C11_Witness ==
    /\ pc = "failed" /\ res.op = "select" /\ tx.done >= 1
    /\ Len(genomes[tx.species][tx.chr]) = 2
    /\ \E sp \in SpeciesNames : Len(RowsRead(res.rows, sp, "c1")) = 2
    /\ RowsRead(res.rows, tx.species, tx.chr) = <<>>


\* the calls that have a storage operation on the connection in flight
InFlight == {t \in Threads : calls[t].at \in {"prepare", "query"}}

\* C12: whatever the threads call on one Inline book, at most one storage
\* operation is in flight, and the call it belongs to holds the mutex.
C12_OneInFlight ==
    /\ Cardinality(InFlight) <= 1
    /\ \A t \in InFlight : conn_mutex.holder = t
    /\ conn_mutex.holder # "none" => conn_mutex.holder \in InFlight

\* C12 witness: a get has its query in flight while a species call waits
\* for the mutex
C12_Witness ==
    \E t, u \in Threads :
        /\ calls[t].op = "get" /\ calls[t].at = "query"
        /\ calls[u].op = "species" /\ calls[u].at = "lock"

\* C13: get_mut of an Inline book fails with ImmutableBook for every id, in
\* the table or not, with no storage operation and no change; get_mut of a
\* preloaded book fails with UnknownId for an id it does not hold.
C13_GetMutImmutable ==
    /\ [](\A t \in Threads :
             calls[t].op = "get_mut" =>
                /\ calls[t].at = "idle"
                /\ book.kind = "Inline" => calls[t].kind = "ImmutableBook"
                /\ (book.kind \in {"InMemory", "Cached"} /\ calls[t].id \notin DOMAIN book.genes)
                      => calls[t].kind = "UnknownId")
    /\ [][(\E t \in Threads : calls'[t].op = "get_mut" /\ calls'[t] # calls[t])
             => /\ UNCHANGED <<table, book, conn_mutex, res>>
                /\ InFlight' = {} /\ InFlight = {}]_vars

\* C13 witness: on an Inline book, get_mut of an id of the table and
\* get_mut of an id that is not in it have both been refused
C13_Witness ==
    /\ book.kind = "Inline"
    /\ \E t, u \in Threads :
          /\ calls[t].op = "get_mut" /\ InTable(calls[t].id)
          /\ calls[t].kind = "ImmutableBook"
          /\ calls[u].op = "get_mut" /\ calls[u].id = AbsentId
          /\ calls[u].kind = "ImmutableBook"

\* C14: a storage operation that fails during get or species of an Inline
\* book is returned to the caller as an error.  The code panics in species.
C14_StorageErrorReturned ==
    \A t \in Threads : calls[t].kind = "StorageError" => calls[t].at = "idle"


\* the record passes the feature-class filter of a file of this extension
PassesClass(r, ext) == r.decode = "ok" /\ (ext = "bed" \/ r.class = IdType)

\* the record passes the filter and has a raw id the id pattern does not match
Unmatched(r, ext) ==
    PassesClass(r, ext) /\ r.raw_id # NoRawId /\ r.raw_id.prefix # "gene:"

\* the record ends the run: it does not decode, or it passes the filter
\* without a raw id or with one the pattern does not match
Faulty(r, ext) ==
    r.decode # "ok" \/ (PassesClass(r, ext) /\ (r.raw_id = NoRawId \/ Unmatched(r, ext)))

\* C15: no file is ingested that holds a record which passes the class
\* filter with a raw id the id pattern does not match; the run that meets
\* one (before any other faulty record of the file) ends with IdNotFound of
\* that raw id, in a family or not; a run that ends with IdNotFound met one,
\* and it passed the class filter.
C15_IdNotFoundAborts ==
    /\ \A n \in 1..Len(gff_log) :
          "raw" \in DOMAIN gff_log[n] =>
              \A k \in 1..Len(gff_log[n].raw) : ~Unmatched(gff_log[n].raw[k], gff_log[n].ext)
    /\ (pc = "failed" /\ res.op = "db_from_files" /\ "file" \in DOMAIN res) =>
          LET f == res.file
              faulty == {k \in 1..Len(f.raw) : Faulty(f.raw[k], f.ext)}
          IN  /\ res.kind = "IdNotFound" =>
                    \E k \in 1..Len(f.raw) :
                        Unmatched(f.raw[k], f.ext) /\ res.id = f.raw[k].raw_id
              /\ res.kind \in {"IdNotFound", "RecordWithoutId", "ParseError", "Panic"} =>
                    /\ faulty # {}
                    /\ LET k == CHOOSE i \in faulty : \A m \in faulty : i <= m
                       IN  Unmatched(f.raw[k], f.ext) <=>
                               (res.kind = "IdNotFound" /\ res.id = f.raw[k].raw_id)

\* C15 witness: after a first file, a GFF file whose first line is of
\* another class with an unmatched id and whose second line is a gene with
\* an unmatched id of a family member has ended the run with IdNotFound
C15_Witness ==
    /\ pc = "failed" /\ res.op = "db_from_files" /\ res.kind = "IdNotFound"
    /\ gff_log # <<>>
    /\ res.id.name \in DOMAIN id2ancestral
    /\ Len(res.file.raw) = 2
    /\ res.file.raw[1].class # IdType /\ res.file.raw[1].raw_id.prefix # "gene:"
    /\ res.file.raw[2].raw_id = res.id

\* the errors of the family loop and of the annotation loop
IngestionErrors ==
    {"CannotOpen", "InvalidRegex", "MissingCaptureGroup", "SpeciesNotFound",
     "UnknownFiletype", "IdNotFound", "RecordWithoutId", "ParseError"}

\* C20: a run that fails on a family file or on an annotation file ends
\* with the error and leaves the table of the earlier run as it was; no
\* step before the end of the two loops changes the table.
C20_FailureBeforeOpen ==
    [][/\ (pc \in {"families", "genomes"} /\ pc' = "failed") =>
             /\ table' = table
             /\ res'.op = "db_from_files"
             /\ res'.kind \in IngestionErrors \cup {"Panic"}
       /\ (pc \in {"families", "genomes"} /\ pc' \in {"families", "genomes"}) =>
             table' = table]_vars

\* C20 witness: a run on a database that has rows has failed on its second
\* annotation file, a record without id, and the rows are there
C20_Witness ==
    /\ pc = "failed" /\ res.op = "db_from_files" /\ res.kind = "RecordWithoutId"
    /\ Len(gff_log) = 1 /\ fam_log # <<>>
    /\ Len(table) = 2


\* C16: landscape() of a Gene is its left landscape in stored order, then
\* the gene itself (its family id, its strand), then its right landscape in
\* stored order; of a Gene of a book of window w it has at most 2w+1
\* elements.
C16_LandscapeOrder ==
    res.op = "landscape" =>
        LET g == res.gene
            n == Len(g.left_landscape)
        IN  /\ Len(res.out) = n + 1 + Len(g.right_landscape)
            /\ SubSeq(res.out, 1, n) = g.left_landscape
            /\ res.out[n + 1] = [family |-> g.family, strand |-> g.strand]
            /\ SubSeq(res.out, n + 2, Len(res.out)) = g.right_landscape
            /\ Len(res.out) <= 2 * book.window + 1

\* C16 witness: the landscape of a gene with a neighbour on each side, from
\* a book of window 1
C16_Witness ==
    /\ res.op = "landscape" /\ book.window = 1
    /\ Len(res.gene.left_landscape) = 1 /\ Len(res.gene.right_landscape) = 1
    /\ Len(res.out) = 3

\* C17: two TailGene values are equal exactly when their family ids are,
\* whatever their strands: (5, Direct) equals (5, Reverse) and differs from
\* (6, Direct); the relation is reflexive, symmetric and transitive.
C17_EqualityIgnoresStrand ==
    res.op = "eq" =>
        /\ res.ab <=> (res.a.family = res.b.family)
        /\ res.aa
        /\ res.ab <=> res.ba
        /\ (res.ab /\ res.bc) => res.ac
        /\ (/\ res.a = [family |-> 5, strand |-> "Direct"]
            /\ res.b = [family |-> 5, strand |-> "Reverse"]
            /\ res.c = [family |-> 6, strand |-> "Direct"]) => (res.ab /\ ~res.ac)

\* C17 witness: (5, Direct), (5, Reverse) and (6, Direct) have been compared
C17_Witness ==
    /\ res.op = "eq"
    /\ res.a = [family |-> 5, strand |-> "Direct"]
    /\ res.b = [family |-> 5, strand |-> "Reverse"]
    /\ res.c = [family |-> 6, strand |-> "Direct"]
    /\ res.ab /\ ~res.ac


\* the annotations records[1..k] of a file add to a chromosome, in the
\* order of the file: those of a family, without the repeats of an id
RECURSIVE KeptOf(_, _, _)
KeptOf(records, k, chr) ==
    IF k = 0 THEN <<>>
    ELSE LET r == records[k]
         IN  KeptOf(records, k - 1, chr) \o
             (IF /\ r.chr = chr
                 /\ r.id \in DOMAIN id2ancestral
                 /\ \A m \in 1..(k - 1) : records[m].id # r.id
              THEN <<[id |-> r.id, dir |-> r.dir, start |-> r.start, stop |-> r.stop,
                      ancestral_id |-> id2ancestral[r.id]]>>
              ELSE <<>>)

\* the annotations of a chromosome in the order they were encountered over
\* gff_log[1..n]
RECURSIVE Encountered(_, _, _)
Encountered(sp, chr, n) ==
    IF n = 0 THEN <<>>
    ELSE Encountered(sp, chr, n - 1) \o
         (IF gff_log[n].species = sp
          THEN KeptOf(gff_log[n].records, Len(gff_log[n].records), chr)
          ELSE <<>>)

\* the annotations of start 0..v, by start, each start in the order of s
RECURSIVE ByStartUpTo(_, _)
ByStartUpTo(s, v) ==
    IF v < 0 THEN <<>>
    ELSE ByStartUpTo(s, v - 1) \o SelectSeq(s, LAMBDA a : a.start = v)

\* the greatest start of a list
MaxStartOf(s) ==
    IF s = <<>> THEN 0
    ELSE CHOOSE v \in {s[i].start : i \in 1..Len(s)} : \A i \in 1..Len(s) : s[i].start <= v

\* C18: after every ingested file, a second one of a species included, and
\* when the rows are written, every chromosome list is in ascending order
\* of start, and the annotations of the same start are in the order they
\* were encountered.
C18_SortedStable ==
    pc \in {"genomes", "fill"} =>
        \A sp \in SpeciesNames, chr \in Chrs :
            LET ids == genomes[sp][chr]
                met == Encountered(sp, chr, Len(gff_log))
            IN  /\ \A i \in 1..(Len(ids) - 1) : ids[i].start <= ids[i + 1].start
                /\ ids = ByStartUpTo(met, MaxStartOf(met))

\* C18 witness: a second file of a species has added a gene of the start
\* of one of the first file, whose lines were not in order, and the rows
\* are being written
C18_Witness ==
    /\ pc = "fill" /\ Len(gff_log) = 2
    /\ gff_log[1].species = gff_log[2].species
    /\ Len(gff_log[1].records) = 2
    /\ gff_log[1].records[1].start > gff_log[1].records[2].start
    /\ LET ids == genomes[gff_log[1].species]["c1"]
       IN  /\ Len(ids) = 3
           /\ ids[2].start = ids[3].start
           /\ ids[2].id = gff_log[1].records[1].id
           /\ ids[3].id = gff_log[2].records[1].id
           /\ ids[2].id # ids[3].id

\* C19: the Gene that lookup returns for an ingested gene has the strand of
\* the Annotation, and so has its own TailGene in landscape(), for each of
\* Direct, Reverse and Unknown.  The code writes Unknown as "-" and reads
\* it back as Reverse.
C19_StrandRoundTrip ==
    (pc = "fill" /\ pending = {}) =>
        \A sp \in SpeciesNames, chr \in Chrs :
            \A j \in 1..Len(genomes[sp][chr]) :
                LET a == genomes[sp][chr][j]
                    got == get(inline(0), table, a.id)
                IN  (Len(SelectSeq(table, LAMBDA r : r.id = a.id)) = 1 /\ got.kind = "Ok") =>
                        /\ got.gene.strand = a.dir
                        /\ landscape(got.gene)[1].strand = a.dir


=============================================================================
